---------------------------- MODULE Spec2Model ----------------------------
(***************************************************************************)
(* A model of the Money Manager ledger (src/script.js): the in-memory      *)
(* transaction store of class MoneyManager, its asynchronous load and save *)
(* against localforage, and the form submit / delete handlers driving it.  *)
(*                                                                         *)
(* JavaScript strings that the code converts (the amount, the description, *)
(* the hidden id field) are sequences of one-character strings, so that    *)
(* parseFloat, parseInt, isNaN and trim are computed, not assumed.         *)
(* A JavaScript number is a record [kind, val]: kind "fin" with an integer *)
(* val, kind "nan", or kind "inf" with val the sign.  The modelled         *)
(* alphabet has no decimal point and no exponent, so every finite number   *)
(* is an integer.  A JavaScript number is an IEEE 754 double: a finite     *)
(* number is hi * 2^53 + val with val far below 2^53 in magnitude, and an  *)
(* addition whose exact result needs more than 53 significant bits is      *)
(* rounded to the nearest double, ties to the even significand.  A         *)
(* calendar date string "YYYY-MM-DD" is the ordinal of its day, and the    *)
(* empty date string is day 0.                                             *)
(***************************************************************************)
EXTENDS Integers, Sequences, FiniteSets, TLC

VARIABLES
    transactions,   \* this.transactions: sequence of Transaction records
    nextId,         \* this.nextId
    loadState,      \* loadInitialData: "pending" at the await, then "done"
    storage,        \* the value localforage holds under DB_KEY
    pendingSaves,   \* setItem calls issued and not yet settled, in issue order
    op,             \* history: the operation the last step performed
    persisted,      \* history: the largest id a record of the stored collection
                    \* has ever carried
    seen,           \* history: the largest id a record of this.transactions
                    \* has carried since the constructor ran
    dirty,          \* history: a mutation ran while the load was pending
    categoryFilter, \* the value of the category-filter control
    dateFilter,     \* the value of the date-filter control, 0 when empty
    sortOption,     \* the value of the sort-option control
    table,          \* the records whose rows the table body shows, in order
    summary         \* the totals the summary cards show

vars == <<transactions, nextId, loadState, storage, pendingSaves, op, persisted,
          seen, dirty, categoryFilter, dateFilter, sortOption, table, summary>>

\* ------------------------------------------------------------------ bounds

\* addTransaction is not taken once nextId exceeds MaxId
MaxId == 3
\* no mutation is taken while MaxPending saves are in flight, or
\* MaxPending - 1 once MaxId has been assigned
MaxPending == 2

\* the mutations explored: one that leaves nextId at nid may issue the save
\* that brings the saves in flight to n
Within(nid, n) ==
    /\ nid <= MaxId + 1
    /\ n <= (IF nid > MaxId THEN MaxPending - 1 ELSE MaxPending)

\* ------------------------------------------------------- JavaScript values

NaN == [kind |-> "nan", val |-> 0, hi |-> 0]
Fin(n) == [kind |-> "fin", val |-> n, hi |-> 0]
Inf(sign) == [kind |-> "inf", val |-> sign, hi |-> 0]

\* the finite number k * 2^53 + v
Big(k, v) == [kind |-> "fin", val |-> v, hi |-> k]

\* the distance between neighbouring doubles from k * 2^53 upwards, k >= 1
RECURSIVE Spacing(_)
Spacing(k) == IF k = 1 THEN 2 ELSE 2 * Spacing(k \div 2)

RECURSIVE IsPowerOfTwo(_)
IsPowerOfTwo(k) == k = 1 \/ (k > 1 /\ k % 2 = 0 /\ IsPowerOfTwo(k \div 2))

\* the distance between neighbouring doubles around k * 2^53 + v, k >= 1:
\* just below a power of two the doubles are twice as dense
Ulp(k, v) == IF v < 0 /\ IsPowerOfTwo(k) THEN Spacing(k) \div 2 ELSE Spacing(k)

\* v rounded to a multiple of s, a tie going to the even multiple
RoundToEven(v, s) ==
    LET q == v \div s
        r == v % s
    IN  IF 2 * r < s THEN q * s
        ELSE IF 2 * r > s THEN (q + 1) * s
        ELSE IF q % 2 = 0 THEN q * s ELSE (q + 1) * s

\* the double nearest to the integer k * 2^53 + v
Double(k, v) ==
    IF k = 0 THEN Fin(v)
    ELSE IF k > 0 THEN Big(k, RoundToEven(v, Ulp(k, v)))
    ELSE Big(k, -RoundToEven(-v, Ulp(-k, -v)))

\* -x
NumNeg(x) ==
    CASE x.kind = "nan" -> NaN
      [] x.kind = "inf" -> Inf(-x.val)
      [] OTHER -> Big(-x.hi, -x.val)

\* x + y, the operands being evaluated once
NumAdd(x, y) ==
    LET Sum(a, b) ==
            CASE a.kind = "nan" \/ b.kind = "nan" -> NaN
              [] a.kind = "inf" /\ b.kind = "inf" -> IF a.val = b.val THEN a ELSE NaN
              [] a.kind = "inf" -> a
              [] b.kind = "inf" -> b
              [] OTHER -> Double(a.hi + b.hi, a.val + b.val)
    IN  CHOOSE sum \in {Sum(a, b) : a \in {x}, b \in {y}} : TRUE

\* x - y
NumSub(x, y) == NumAdd(x, NumNeg(y))

\* the sign of x: -1, 0 or 1, and 0 for NaN
NumSign(x) ==
    CASE x.kind = "nan" -> 0
      [] x.kind = "inf" -> x.val
      [] x.hi # 0 -> IF x.hi > 0 THEN 1 ELSE -1
      [] OTHER -> IF x.val > 0 THEN 1 ELSE IF x.val < 0 THEN -1 ELSE 0

Digits == <<"0", "1", "2", "3", "4", "5", "6", "7", "8", "9">>
IsDigit(c) == \E i \in 1..10 : Digits[i] = c
DigitVal(c) == (CHOOSE i \in 1..10 : Digits[i] = c) - 1
IsWhite(c) == c = " "

InfinityLit == <<"I", "n", "f", "i", "n", "i", "t", "y">>

\* s starts with the characters of p
StartsWith(s, p) == Len(s) >= Len(p) /\ SubSeq(s, 1, Len(p)) = p

RECURSIVE TrimStart(_)
TrimStart(s) ==
    IF s # <<>> /\ IsWhite(Head(s)) THEN TrimStart(Tail(s)) ELSE s

RECURSIVE TrimEnd(_)
TrimEnd(s) ==
    IF s # <<>> /\ IsWhite(s[Len(s)]) THEN TrimEnd(SubSeq(s, 1, Len(s) - 1)) ELSE s

\* String.prototype.trim
StrTrim(s) == TrimEnd(TrimStart(s))

\* the longest prefix of s made of decimal digits
RECURSIVE DigitPrefix(_)
DigitPrefix(s) ==
    IF s # <<>> /\ IsDigit(Head(s)) THEN <<Head(s)>> \o DigitPrefix(Tail(s)) ELSE <<>>

\* the value of a non-empty sequence of decimal digits
RECURSIVE DigitsValue(_)
DigitsValue(s) ==
    IF s = <<>> THEN 0 ELSE 10 * DigitsValue(SubSeq(s, 1, Len(s) - 1)) + DigitVal(s[Len(s)])

\* the decimal digits of 2^53, and the value of the last nine of them
TwoTo53Digits ==
    <<"9", "0", "0", "7", "1", "9", "9", "2", "5", "4", "7", "4", "0", "9", "9", "2">>
TwoTo53Low == DigitsValue(SubSeq(TwoTo53Digits, 8, 16))

\* the double a sequence of decimal digits denotes: up to nine digits, or
\* sixteen digits that start as 2^53 does; the digits being evaluated once
DigitsNumber(s) ==
    LET Denoted(d) ==
            CASE Len(d) <= 9 -> Fin(DigitsValue(d))
              [] Len(d) = 16 /\ SubSeq(d, 1, 7) = SubSeq(TwoTo53Digits, 1, 7) ->
                     Double(1, (CHOOSE low \in {DigitsValue(e) : e \in {SubSeq(d, 8, 16)}} :
                                    TRUE) - TwoTo53Low)
    IN  CHOOSE n \in {Denoted(d) : d \in {s}} : TRUE

\* the number with the sign of a literal
Signed(sign, x) == IF sign < 0 THEN NumNeg(x) ELSE x

\* the sign a numeric literal starts with, and the literal without it
SignOf(s) == IF s # <<>> /\ Head(s) = "-" THEN -1 ELSE 1
Unsigned(s) == IF s # <<>> /\ (Head(s) = "-" \/ Head(s) = "+") THEN Tail(s) ELSE s

\* parseFloat(string): skips leading white space, then reads the longest
\* prefix that is a decimal literal; NaN when there is none; the string
\* being evaluated once
ParseFloat(s) ==
    LET Parsed(t, u) ==
            IF StartsWith(u, InfinityLit) THEN Inf(SignOf(t))
            ELSE IF DigitPrefix(u) = <<>> THEN NaN
            ELSE Signed(SignOf(t), DigitsNumber(DigitPrefix(u)))
    IN  CHOOSE x \in {Parsed(t, Unsigned(t)) : t \in {TrimStart(s)}} : TRUE

\* parseInt(string): as parseFloat, without the Infinity literal
ParseInt(s) ==
    LET t == TrimStart(s)
        u == Unsigned(t)
    IN  IF DigitPrefix(u) = <<>> THEN NaN
        ELSE Fin(SignOf(t) * DigitsValue(DigitPrefix(u)))

\* Number(string): the whole trimmed string must be a numeric literal, and
\* the empty string is 0
ToNumber(s) ==
    LET t == StrTrim(s)
        u == Unsigned(t)
    IN  IF t = <<>> THEN Fin(0)
        ELSE IF u = InfinityLit THEN Inf(SignOf(t))
        ELSE IF u # <<>> /\ DigitPrefix(u) = u THEN Signed(SignOf(t), DigitsNumber(u))
        ELSE NaN

\* the global isNaN(x) applied to a string: Number(x) is NaN
IsNaN(s) == ToNumber(s).kind = "nan"

\* the decimal digits of a natural number
RECURSIVE NatToString(_)
NatToString(n) ==
    IF n < 10 THEN <<Digits[n + 1]>> ELSE NatToString(n \div 10) \o <<Digits[(n % 10) + 1]>>

\* s with zeros put before it up to n characters
RECURSIVE PadZeros(_, _)
PadZeros(s, n) == IF Len(s) >= n THEN s ELSE PadZeros(<<"0">> \o s, n)

\* String(number), the conversion parseFloat applies to a number argument;
\* of the numbers from 2^53 on, those that share its first seven digits
NumberToString(x) ==
    IF x.kind = "nan" THEN <<"N", "a", "N">>
    ELSE IF x.kind = "inf" THEN (IF x.val < 0 THEN <<"-">> ELSE <<>>) \o InfinityLit
    ELSE IF x.hi = 1
    THEN SubSeq(TwoTo53Digits, 1, 7) \o PadZeros(NatToString(TwoTo53Low + x.val), 9)
    ELSE IF x.val < 0 THEN <<"-">> \o NatToString(-x.val)
    ELSE NatToString(x.val)

\* x <= 0 on numbers: false when x is NaN
NumLeqZero(x) ==
    CASE x.kind = "nan" -> FALSE
      [] x.kind = "inf" -> x.val < 0
      [] OTHER -> x.hi < 0 \/ (x.hi = 0 /\ x.val <= 0)


\* ------------------------------------------------------------ Transaction

\* new Transaction(id, amount, date, category, subCategory, description),
\* amount and description being strings
Transaction(id, amount, date, category, subCategory, description) ==
    [id |-> id,
     amount |-> ParseFloat(amount),
     date |-> date,
     category |-> category,
     subCategory |-> subCategory,
     description |-> StrTrim(description)]

\* new Transaction(id, formData.amount, formData.date, ...) as addTransaction
\* and updateTransaction build it
FromForm(id, formData) ==
    Transaction(id, formData.amount, formData.date, formData.category,
                formData.subCategory, formData.description)

\* mutant: category and subCategory passed in each other's place
RehydrateSwapped(t) ==
    Transaction(t.id, NumberToString(t.amount), t.date, t.subCategory,
                t.category, t.description)

\* t => new Transaction(t.id, t.amount, ...) on a stored record: the stored
\* amount is a number, which parseFloat first converts to a string
Rehydrate(t) ==
    Transaction(t.id, NumberToString(t.amount), t.date, t.category,
                t.subCategory, t.description)

\* storedTransactions.map(t => new Transaction(...))
RehydrateAll(stored) == [i \in 1..Len(stored) |-> Rehydrate(stored[i])]

\* Math.max(...ids) of a non-empty collection
MaxOf(S) == CHOOSE m \in S : \A x \in S : x <= m

\* the largest id among the records of txs, 0 when there is none
MaxIdIn(txs) ==
    IF Len(txs) > 0 THEN MaxOf({txs[i].id : i \in 1..Len(txs)}) ELSE 0

\* mutant: nextId taken from the number of records loaded
NextIdFromCount(txs) == Len(txs) + 1

\* mutant: nextId set to the largest id loaded, without the + 1
NextIdWithoutIncrement(txs) == IF Len(txs) > 0 THEN MaxIdIn(txs) ELSE 1

\* this.transactions.length > 0 ? Math.max(...ids) + 1 : 1
NextIdAfterLoad(txs) ==
    IF Len(txs) > 0 THEN MaxOf({txs[i].id : i \in 1..Len(txs)}) + 1 ELSE 1

\* mutant: an id that is not found yields the last position
FindIndexOrLast(txs, id) ==
    IF \E i \in 1..Len(txs) : txs[i].id = id
    THEN CHOOSE i \in 1..Len(txs) : txs[i].id = id
    ELSE Len(txs)

\* this.transactions.findIndex(t => t.id === id), 1-based; 0 stands for -1
FindIndex(txs, id) ==
    IF \E i \in 1..Len(txs) : txs[i].id = id
    THEN CHOOSE i \in 1..Len(txs) :
             txs[i].id = id /\ \A j \in 1..(i - 1) : txs[j].id # id
    ELSE 0

\* mutant: unshift in place of push
Unshifted(txs, t) == <<t>> \o txs

\* this.transactions.push(newTransaction)
Pushed(txs, t) == Append(txs, t)

\* mutant: the new record merged into the old one, an empty description
\* keeping the old description
ReplacedMerging(txs, index, t) ==
    [txs EXCEPT ![index] =
        [t EXCEPT !.description =
            IF t.description = <<>> THEN txs[index].description ELSE t.description]]

\* this.transactions[index] = new Transaction(id, ...)
Replaced(txs, index, t) == [txs EXCEPT ![index] = t]

\* mutant: the id taken for a position, as splice(id - 1, 1) would
FilteredByPosition(txs, id) ==
    [i \in 1..(Len(txs) - (IF id <= Len(txs) THEN 1 ELSE 0)) |->
        IF i < id THEN txs[i] ELSE txs[i + 1]]

\* this.transactions.filter(t => t.id !== id)
Filtered(txs, id) == SelectSeq(txs, LAMBDA t : t.id # id)

\* ------------------------------------------------------------- validation

\* new Date("YYYY-MM-DD"): midnight UTC of the day, in hours
DateParse(date) == date * 24

\* today = new Date(); today.setHours(0,0,0,0): the local midnight before
\* clock.now, as a UTC instant in hours; clock.off is local time minus UTC
LocalMidnight(clock) == (((clock.now + clock.off) \div 24) * 24) - clock.off

\* the fields validateForm flags
FailingFields(formData, clock) ==
    {f \in {"amount", "date", "category", "subCategory"} :
        \/ /\ f = "amount"
           /\ (IsNaN(formData.amount) \/ NumLeqZero(ParseFloat(formData.amount)))
        \/ /\ f = "date"
           /\ (formData.date = 0 \/ DateParse(formData.date) > LocalMidnight(clock))
        \/ /\ f = "category"
           /\ formData.category = ""
        \/ /\ f = "subCategory"
           /\ formData.subCategory = ""}

\* mutant: isValid assigned by each check, so that the last one decides
ValidateFormLastCheckOnly(formData, clock) ==
    "subCategory" \notin FailingFields(formData, clock)

\* validateForm's result, isValid
ValidateForm(formData, clock) == FailingFields(formData, clock) = {}

\* ------------------------------------------------------------------- view

\* new Date(date) as a number: NaN for the empty string
DateNumber(date) == IF date = 0 THEN NaN ELSE Fin(DateParse(date))

\* the sign of what the comparator given to sort returns for (a, b); a NaN
\* result counts as 0
Compare(a, b, option) ==
    CASE option = "date-asc" -> NumSign(NumSub(DateNumber(a.date), DateNumber(b.date)))
      [] option = "date-desc" -> NumSign(NumSub(DateNumber(b.date), DateNumber(a.date)))
      [] option = "amount-asc" -> NumSign(NumSub(a.amount, b.amount))
      [] option = "amount-desc" -> NumSign(NumSub(b.amount, a.amount))
      [] OTHER -> 0

\* the comparator is a consistent comparison function for the elements of seq
Consistent(seq, option) ==
    \A i, j, k \in 1..Len(seq) :
        /\ Compare(seq[i], seq[j], option) = -Compare(seq[j], seq[i], option)
        /\ (Compare(seq[i], seq[j], option) <= 0 /\ Compare(seq[j], seq[k], option) <= 0)
              => Compare(seq[i], seq[k], option) <= 0
        /\ (Compare(seq[i], seq[j], option) = 0 /\ Compare(seq[j], seq[k], option) = 0)
              => Compare(seq[i], seq[k], option) = 0

\* the orders in which the positions 1..n can be visited
Orders(n) == {p \in [1..n -> 1..n] : \A i, j \in 1..n : p[i] = p[j] => i = j}

\* what seq.sort(comparator) can leave in seq: with a consistent comparator
\* the elements in ascending order of it, equal ones in their former order;
\* otherwise an order the implementation defines
Sorted(seq, option) ==
    IF Consistent(seq, option)
    THEN {[i \in 1..Len(seq) |-> seq[p[i]]] :
            p \in {q \in Orders(Len(seq)) :
                      \A i, j \in 1..Len(seq) :
                          i < j => \/ Compare(seq[q[i]], seq[q[j]], option) < 0
                                   \/ /\ Compare(seq[q[i]], seq[q[j]], option) = 0
                                      /\ q[i] < q[j]}}
    ELSE {[i \in 1..Len(seq) |-> seq[p[i]]] : p \in Orders(Len(seq))}

\* mutant: the category filter applied although "all" is selected
FilteredByCategoryAlways(txs, category) ==
    SelectSeq(txs, LAMBDA t : t.category = category)

\* if (categoryFilter !== 'all') filter(t => t.category === categoryFilter)
FilteredByCategory(txs, category) ==
    IF category # "all" THEN SelectSeq(txs, LAMBDA t : t.category = category) ELSE txs

\* mutant: the records up to the date kept
FilteredUpToDate(txs, date) ==
    IF date # 0 THEN SelectSeq(txs, LAMBDA t : t.date <= date) ELSE txs

\* if (dateFilter) filter(t => t.date === dateFilter)
FilteredByDate(txs, date) ==
    IF date # 0 THEN SelectSeq(txs, LAMBDA t : t.date = date) ELSE txs

\* filteredAndSorted as renderTransactions can compute it from txs
Projections(txs, category, date, option) ==
    Sorted(FilteredByDate(FilteredByCategory(txs, category), date), option)

\* mutant: the array sorted is this.transactions itself when no filter
\* made a new one
TransactionsSortedInPlace(txs, rows) == IF Len(rows) = Len(txs) THEN rows ELSE txs

\* this.transactions after renderTransactions: the array filtered and
\* sorted is the copy [...this.transactions]
TransactionsAfterRender(txs, rows) == txs

\* renderTransactions() with this.transactions holding txs
RenderTransactions(txs, category, date, option) ==
    \E rows \in Projections(txs, category, date, option) :
        /\ table' = rows
        /\ transactions' = TransactionsAfterRender(txs, rows)

\* reduce((sum, t) => sum + t.amount, acc)
RECURSIVE Reduce(_, _)
Reduce(acc, txs) ==
    IF txs = <<>> THEN acc ELSE Reduce(NumAdd(acc, Head(txs).amount), Tail(txs))

\* the three totals updateSummary computes
Summarize(txs) ==
    LET totalIncome == Reduce(Fin(0), SelectSeq(txs, LAMBDA t : t.category = "income"))
        totalExpenses == Reduce(Fin(0), SelectSeq(txs, LAMBDA t : t.category = "expense"))
    IN  [written |-> TRUE, totalIncome |-> totalIncome, totalExpenses |-> totalExpenses,
         netBalance |-> NumSub(totalIncome, totalExpenses)]

\* the summary cards before updateSummary has written them
NoSummary ==
    [written |-> FALSE, totalIncome |-> Fin(0), totalExpenses |-> Fin(0),
     netBalance |-> Fin(0)]

\* updateSummary() with this.transactions holding txs
UpdateSummary(txs) == summary' = Summarize(txs)

\* renderTransactions(); updateSummary(); as every mutation and the load end
Refresh(txs) ==
    \E current \in {txs} :
        /\ UNCHANGED <<categoryFilter, dateFilter, sortOption>>
        /\ RenderTransactions(current, categoryFilter, dateFilter, sortOption)
        /\ UpdateSummary(current)

\* the values the filter and sort controls can take; "none" is a sort option
\* the comparator does not know
CategoryFilters == {"all", "income", "expense"}
DateFilters == 0..2
SortOptions == {"none", "date-asc", "date-desc", "amount-asc", "amount-desc"}

\* ----------------------------------------------------------------- inputs

\* the form contents the submit handler is given: two that differ in every
\* field, and the invalid one with a negative amount
FormBodies ==
    {[amount |-> <<"1", "0", "0", "0">>, date |-> 1, category |-> "income",
      subCategory |-> "salary", description |-> <<" ", "p", "a", "y", " ">>],
     [amount |-> <<"2", "0", "0">>, date |-> 2, category |-> "expense",
      subCategory |-> "groceries", description |-> <<>>],
     [amount |-> <<"-", "5">>, date |-> 1, category |-> "expense",
      subCategory |-> "rent", description |-> <<"x">>]}

\* the hidden transaction-id field: empty, or the id showModal wrote into it
IdFields == {<<>>} \cup {NatToString(i) : i \in 1..MaxId}

\* formData as the submit handler assembles it
FormInputs ==
    {[id |-> i, amount |-> b.amount, date |-> b.date, category |-> b.category,
      subCategory |-> b.subCategory, description |-> b.description] :
        i \in IdFields, b \in FormBodies}

\* the instant and the local-time offset at which a form is validated: noon
\* UTC of day 2, in hours, on a clock set to UTC
Clocks == {[now |-> 60, off |-> 0]}

\* the ids a delete button can carry
ButtonIds == 1..MaxId

\* the form of an operation that has none
NoForm ==
    [id |-> <<>>, amount |-> <<>>, date |-> 0, category |-> "", subCategory |-> "",
     description |-> <<>>]

\* the value of an absent key: getItem resolves to null
Null == [present |-> FALSE, value |-> <<>>]
Stored(value) == [present |-> TRUE, value |-> value]

\* the contents of a form, without its hidden id field
BodyOf(formData) ==
    [amount |-> formData.amount, date |-> formData.date,
     category |-> formData.category, subCategory |-> formData.subCategory,
     description |-> formData.description]

\* the record of the step just taken
Op(name, id, formData, found) ==
    [name |-> name, id |-> id, form |-> BodyOf(formData), found |-> found]

\* the number a parsed id field denotes among record ids; 0, which no record
\* carries, for NaN
IdOf(x) == IF x.kind = "fin" THEN x.val ELSE 0

Max2(a, b) == IF a >= b THEN a ELSE b

\* ---------------------------------------------------------------- actions

\* new MoneyManager() on DOMContentLoaded: the state the constructor leaves,
\* with loadInitialData suspended at its await
Init ==
    /\ transactions = <<>>
    /\ nextId = 1
    /\ loadState = "pending"
    /\ storage = Null
    /\ pendingSaves = <<>>
    /\ op = Op("construct", 0, NoForm, FALSE)
    /\ persisted = 0
    /\ seen = 0
    /\ dirty = FALSE
    /\ categoryFilter = "all"
    /\ dateFilter = 0
    /\ sortOption = "none"
    /\ table = <<>>
    /\ summary = NoSummary

\* the page is loaded again: a new MoneyManager over the same storage; the
\* saves of the page that went away are settled or gone
Construct ==
    /\ transactions' = <<>>
    /\ nextId' = 1
    /\ loadState' = "pending"
    /\ pendingSaves' = <<>>
    /\ op' = Op("construct", 0, NoForm, FALSE)
    /\ seen' = 0
    /\ dirty' = FALSE
    /\ categoryFilter' = "all"
    /\ dateFilter' = 0
    /\ sortOption' = "none"
    /\ table' = <<>>
    /\ summary' = NoSummary
    /\ UNCHANGED <<storage, persisted>>

\* mutant: the save waits for the saves in flight
SaveTransactionsAfterPending(snapshot) ==
    /\ pendingSaves = <<>>
    /\ pendingSaves' = <<snapshot>>

\* saveTransactions(): setItem(DB_KEY, this.transactions) is issued and not
\* awaited by the caller
SaveTransactions(snapshot) == pendingSaves' = Append(pendingSaves, snapshot)

\* mutant: the save issued before the record is pushed
AddTransactionSavingFirst(formData) ==
    /\ Within(nextId + 1, Len(pendingSaves) + 1)
    /\ LET newTransaction == FromForm(nextId, formData)
       IN  /\ nextId' = nextId + 1
           /\ SaveTransactions(transactions)
           /\ Refresh(Pushed(transactions, newTransaction))
    /\ op' = Op("add", nextId, formData, FALSE)
    /\ seen' = Max2(seen, nextId)
    /\ dirty' = (loadState = "pending")
    /\ UNCHANGED <<loadState, storage, persisted>>

\* addTransaction(formData)
AddTransaction(formData) ==
    /\ Within(nextId + 1, Len(pendingSaves) + 1)
    /\ LET newTransaction == FromForm(nextId, formData)
       IN  /\ nextId' = nextId + 1
           /\ SaveTransactions(Pushed(transactions, newTransaction))
           /\ Refresh(Pushed(transactions, newTransaction))
    /\ op' = Op("add", nextId, formData, FALSE)
    /\ seen' = Max2(seen, nextId)
    /\ dirty' = (loadState = "pending")
    /\ UNCHANGED <<loadState, storage, persisted>>

\* updateTransaction(id, updatedData)
UpdateTransaction(id, updatedData) ==
    LET index == FindIndex(transactions, id)
    IN  IF index > 0
        THEN /\ Within(nextId, Len(pendingSaves) + 1)
             /\ SaveTransactions(Replaced(transactions, index, FromForm(id, updatedData)))
             /\ Refresh(Replaced(transactions, index, FromForm(id, updatedData)))
             /\ op' = Op("update", id, updatedData, TRUE)
             /\ dirty' = (loadState = "pending")
             /\ UNCHANGED <<nextId, loadState, storage, persisted, seen>>
        ELSE /\ op' = Op("update", id, NoForm, FALSE)
             /\ UNCHANGED <<transactions, nextId, loadState, storage, pendingSaves,
                            persisted, seen, dirty, categoryFilter, dateFilter,
                            sortOption, table, summary>>

\* mutant: the answer of window.confirm not looked at
DeleteTransactionIgnoringAnswer(id, confirmed) ==
    /\ Within(nextId, Len(pendingSaves) + 1)
    /\ SaveTransactions(Filtered(transactions, id))
    /\ Refresh(Filtered(transactions, id))
    /\ op' = IF confirmed
             THEN Op("delete", id, NoForm, FindIndex(transactions, id) > 0)
             ELSE Op("deleteDeclined", 0, NoForm, FALSE)
    /\ dirty' = (loadState = "pending")
    /\ UNCHANGED <<nextId, loadState, storage, persisted, seen>>

\* deleteTransaction(id), window.confirm answering `confirmed`
DeleteTransaction(id, confirmed) ==
    IF confirmed
    THEN /\ Within(nextId, Len(pendingSaves) + 1)
         /\ SaveTransactions(Filtered(transactions, id))
         /\ Refresh(Filtered(transactions, id))
         /\ op' = Op("delete", id, NoForm, FindIndex(transactions, id) > 0)
         /\ dirty' = (loadState = "pending")
         /\ UNCHANGED <<nextId, loadState, storage, persisted, seen>>
    ELSE /\ op' = Op("deleteDeclined", 0, NoForm, FALSE)
         /\ UNCHANGED <<transactions, nextId, loadState, storage, pendingSaves,
                        persisted, seen, dirty, categoryFilter, dateFilter,
                        sortOption, table, summary>>

\* the submit handler of the transaction form
SubmitForm(formData, clock) ==
    IF ValidateForm(formData, clock)
    THEN IF formData.id # <<>>
         THEN UpdateTransaction(IdOf(ParseInt(formData.id)), formData)
         ELSE AddTransaction(formData)
    ELSE /\ op' = Op("invalid", 0, formData, FALSE)
         /\ UNCHANGED <<transactions, nextId, loadState, storage, pendingSaves,
                        persisted, seen, dirty, categoryFilter, dateFilter,
                        sortOption, table, summary>>

\* the click handler of the table, on a delete button
ClickDelete(id, confirmed) == DeleteTransaction(id, confirmed)

\* mutant: the views refreshed before the loaded collection is assigned
LoadResolvedRefreshingFirst ==
    /\ loadState = "pending"
    /\ loadState' = "done"
    /\ IF storage.present
       THEN /\ nextId' = NextIdAfterLoad(RehydrateAll(storage.value))
            /\ seen' = Max2(seen, MaxIdIn(RehydrateAll(storage.value)))
            /\ op' = Op("loadOk", 0, NoForm, TRUE)
            /\ transactions' = RehydrateAll(storage.value)
            /\ table' \in Projections(transactions, categoryFilter, dateFilter, sortOption)
            /\ summary' = Summarize(transactions)
            /\ UNCHANGED <<categoryFilter, dateFilter, sortOption>>
       ELSE /\ op' = Op("loadOk", 0, NoForm, FALSE)
            /\ UNCHANGED <<nextId, seen>>
            /\ Refresh(transactions)
    /\ dirty' = FALSE
    /\ UNCHANGED <<storage, pendingSaves, persisted>>

\* loadInitialData resumes with the value getItem resolved to
LoadResolved ==
    /\ loadState = "pending"
    /\ loadState' = "done"
    /\ IF storage.present
       THEN \E loaded \in {RehydrateAll(storage.value)} :
                /\ nextId' = NextIdAfterLoad(loaded)
                /\ seen' = Max2(seen, MaxIdIn(loaded))
                /\ op' = Op("loadOk", 0, NoForm, TRUE)
                /\ Refresh(loaded)
       ELSE /\ op' = Op("loadOk", 0, NoForm, FALSE)
            /\ UNCHANGED <<nextId, seen>>
            /\ Refresh(transactions)
    /\ dirty' = FALSE
    /\ UNCHANGED <<storage, pendingSaves, persisted>>

\* mutant: the catch block puts the store back to its constructed state
LoadRejectedResetting ==
    /\ loadState = "pending"
    /\ loadState' = "done"
    /\ nextId' = 1
    /\ op' = Op("loadFail", 0, NoForm, dirty)
    /\ dirty' = FALSE
    /\ Refresh(<<>>)
    /\ UNCHANGED <<storage, pendingSaves, persisted, seen>>

\* loadInitialData resumes in its catch: getItem rejected, or the stored
\* value could not be rehydrated
LoadRejected ==
    /\ loadState = "pending"
    /\ loadState' = "done"
    /\ op' = Op("loadFail", 0, NoForm, dirty)
    /\ dirty' = FALSE
    /\ Refresh(transactions)
    /\ UNCHANGED <<nextId, storage, pendingSaves, persisted, seen>>

\* pendingSaves without its i-th element
Without(saves, i) == SubSeq(saves, 1, i - 1) \o SubSeq(saves, i + 1, Len(saves))

\* a setItem resolves: the value under DB_KEY is replaced by what it was given
SaveResolved(i) ==
    /\ storage' = Stored(pendingSaves[i])
    /\ pendingSaves' = Without(pendingSaves, i)
    /\ persisted' = Max2(persisted, MaxIdIn(pendingSaves[i]))
    /\ op' = Op("saveOk", 0, NoForm, FALSE)
    /\ UNCHANGED <<transactions, nextId, loadState, seen, dirty, categoryFilter,
                   dateFilter, sortOption, table, summary>>

\* mutant: the catch block puts the stored collection back in memory
SaveRejectedRollingBack(i) ==
    /\ pendingSaves' = Without(pendingSaves, i)
    /\ op' = Op("saveFail", 0, NoForm, FALSE)
    /\ Refresh(IF storage.present THEN storage.value ELSE <<>>)
    /\ UNCHANGED <<nextId, loadState, storage, persisted, seen, dirty>>

\* a setItem rejects: saveTransactions logs the error
SaveRejected(i) ==
    /\ pendingSaves' = Without(pendingSaves, i)
    /\ op' = Op("saveFail", 0, NoForm, FALSE)
    /\ UNCHANGED <<transactions, nextId, loadState, storage, persisted, seen, dirty,
                   categoryFilter, dateFilter, sortOption, table, summary>>

\* the change handler of the category-filter control, the control now
\* holding `value`
ChangeCategoryFilter(value) ==
    /\ value # categoryFilter
    /\ categoryFilter' = value
    /\ RenderTransactions(transactions, value, dateFilter, sortOption)
    /\ op' = Op("render", 0, NoForm, FALSE)
    /\ UNCHANGED <<nextId, loadState, storage, pendingSaves, persisted, seen, dirty,
                   dateFilter, sortOption, summary>>

\* the change handler of the date-filter control
ChangeDateFilter(value) ==
    /\ value # dateFilter
    /\ dateFilter' = value
    /\ RenderTransactions(transactions, categoryFilter, value, sortOption)
    /\ op' = Op("render", 0, NoForm, FALSE)
    /\ UNCHANGED <<nextId, loadState, storage, pendingSaves, persisted, seen, dirty,
                   categoryFilter, sortOption, summary>>

\* the change handler of the sort-option control
ChangeSortOption(value) ==
    /\ value # sortOption
    /\ sortOption' = value
    /\ RenderTransactions(transactions, categoryFilter, dateFilter, value)
    /\ op' = Op("render", 0, NoForm, FALSE)
    /\ UNCHANGED <<nextId, loadState, storage, pendingSaves, persisted, seen, dirty,
                   categoryFilter, dateFilter, summary>>

Next ==
    \/ Construct
    \/ \E formData \in FormInputs, clock \in Clocks : SubmitForm(formData, clock)
    \/ \E id \in ButtonIds, confirmed \in BOOLEAN : ClickDelete(id, confirmed)
    \/ LoadResolved
    \/ LoadRejected
    \/ \E i \in 1..Len(pendingSaves) : SaveResolved(i)
    \/ \E i \in 1..Len(pendingSaves) : SaveRejected(i)

Spec == Init /\ [][Next]_vars

\* the runs in which the store rejects neither the load nor a save
NextReliable ==
    \/ Construct
    \/ \E formData \in FormInputs, clock \in Clocks : SubmitForm(formData, clock)
    \/ \E id \in ButtonIds, confirmed \in BOOLEAN : ClickDelete(id, confirmed)
    \/ LoadResolved
    \/ \E i \in 1..Len(pendingSaves) : SaveResolved(i)

SpecReliable == Init /\ [][NextReliable]_vars

\* a setItem resolves, the store serving its requests in the order they were
\* issued: the load first, then the saves, oldest first
SaveResolvedInOrder ==
    /\ loadState = "done"
    /\ pendingSaves # <<>>
    /\ SaveResolved(1)

\* the runs in which the store serves its requests in order and rejects none
NextOrdered ==
    \/ Construct
    \/ \E formData \in FormInputs, clock \in Clocks : SubmitForm(formData, clock)
    \/ \E id \in ButtonIds, confirmed \in BOOLEAN : ClickDelete(id, confirmed)
    \/ LoadResolved
    \/ SaveResolvedInOrder

SpecOrdered == Init /\ [][NextOrdered]_vars

\* what the amount field can hold when the form is submitted
AmountInputs ==
    {<<"1", "0", "0", "0">>, <<>>, <<" ">>, <<"a", "b", "c">>, <<"1", "2", "a">>,
     <<"0">>, <<"-", "5">>, InfinityLit}

\* forms that differ in the amount only, and forms with one other field
\* missing or a date after today
AmountForms ==
    {[id |-> i, amount |-> a, date |-> d, category |-> c, subCategory |-> sc,
      description |-> <<>>] :
        i \in {<<>>, <<"1">>}, a \in AmountInputs, d \in {1}, c \in {"income"},
        sc \in {"salary"}}
    \cup
    {[id |-> <<>>, amount |-> <<"7">>, date |-> d, category |-> c, subCategory |-> sc,
      description |-> <<>>] :
        d \in {0, 3}, c \in {"expense"}, sc \in {"rent"}}
    \cup
    {[id |-> <<>>, amount |-> <<"7">>, date |-> 1, category |-> c, subCategory |-> sc,
      description |-> <<>>] :
        c \in {"", "expense"}, sc \in {""}}

\* the runs in which forms of every kind are submitted, the store serving
\* its requests in order
NextForms ==
    \/ Construct
    \/ \E formData \in AmountForms, clock \in Clocks : SubmitForm(formData, clock)
    \/ LoadResolved
    \/ SaveResolvedInOrder

SpecForms == Init /\ [][NextForms]_vars

\* the forms the records of a stored collection were made from: an amount
\* of 2^53, amounts of 1, and the empty amount that validateForm lets pass
ViewForms ==
    {[id |-> <<>>, amount |-> TwoTo53Digits, date |-> 1, category |-> "income",
      subCategory |-> "salary", description |-> <<>>],
     [id |-> <<>>, amount |-> <<"1">>, date |-> 2, category |-> "income",
      subCategory |-> "bonus", description |-> <<>>],
     [id |-> <<>>, amount |-> <<"1">>, date |-> 1, category |-> "expense",
      subCategory |-> "rent", description |-> <<>>],
     [id |-> <<>>, amount |-> <<>>, date |-> 2, category |-> "expense",
      subCategory |-> "groceries", description |-> <<>>]}

\* the collections earlier pages can have left in the store: records that
\* addTransaction made from forms validateForm accepted, ids in order
StoredCollections ==
    UNION {{[i \in 1..n |-> FromForm(i, f[i])] :
               f \in [1..n -> {g \in ViewForms : \A clock \in Clocks : ValidateForm(g, clock)}]} :
           n \in 0..MaxId}

\* a page opened over a store that holds one of these collections
InitView ==
    /\ transactions = <<>>
    /\ nextId = 1
    /\ loadState = "pending"
    /\ storage \in {Stored(c) : c \in StoredCollections}
    /\ pendingSaves = <<>>
    /\ op = Op("construct", 0, NoForm, FALSE)
    /\ persisted = MaxIdIn(storage.value)
    /\ seen = 0
    /\ dirty = FALSE
    /\ categoryFilter = "all"
    /\ dateFilter = 0
    /\ sortOption = "none"
    /\ table = <<>>
    /\ summary = NoSummary

\* the runs in which the collection is loaded and the filter and sort
\* controls are changed
NextView ==
    \/ LoadResolved
    \/ \E value \in CategoryFilters : ChangeCategoryFilter(value)
    \/ \E value \in DateFilters : ChangeDateFilter(value)
    \/ \E value \in SortOptions : ChangeSortOption(value)

SpecView == InitView /\ [][NextView]_vars

\* a page opened over a store that holds nothing or one of the collections
\* earlier pages can have left
InitLoad ==
    /\ transactions = <<>>
    /\ nextId = 1
    /\ loadState = "pending"
    /\ storage \in {Null} \cup {Stored(c) : c \in StoredCollections}
    /\ pendingSaves = <<>>
    /\ op = Op("construct", 0, NoForm, FALSE)
    /\ persisted = IF storage.present THEN MaxIdIn(storage.value) ELSE 0
    /\ seen = 0
    /\ dirty = FALSE
    /\ categoryFilter = "all"
    /\ dateFilter = 0
    /\ sortOption = "none"
    /\ table = <<>>
    /\ summary = NoSummary

\* the runs of loadInitialData: the page is opened, a filter may be changed
\* before getItem settles, and getItem resolves or rejects
NextLoad ==
    \/ Construct
    \/ \E value \in CategoryFilters : ChangeCategoryFilter(value)
    \/ LoadResolved
    \/ LoadRejected

\* getItem settles: the promise loadInitialData awaits is resolved or
\* rejected by the store, and the continuation is then run
SpecLoad == InitLoad /\ [][NextLoad]_vars /\ WF_vars(LoadResolved \/ LoadRejected)

\* the offsets of local time from UTC, in hours: west of UTC, UTC and east
Offsets == {-5, 0, 2}

\* the instants and offsets at which a form is validated on local day 2:
\* the first hour of the day, noon and its last hour, at each offset
LocalClocks ==
    {[now |-> (2 * 24) + h - off, off |-> off] : h \in {0, 12, 23}, off \in Offsets}

\* forms that differ in the date only: none, yesterday, today and tomorrow
\* of local day 2
DateForms ==
    {[id |-> i, amount |-> <<"7">>, date |-> d, category |-> "expense",
      subCategory |-> "rent", description |-> <<>>] : i \in {<<>>, <<"1">>}, d \in 0..3}

\* the runs in which forms are submitted through a local day in each of the
\* time zones, the store serving its requests in order
NextClock ==
    \/ Construct
    \/ \E formData \in DateForms, clock \in LocalClocks : SubmitForm(formData, clock)
    \/ LoadResolved
    \/ SaveResolvedInOrder

SpecClock == Init /\ [][NextClock]_vars

\* ------------------------------------------------------------------ claims

\* the positions of txs holding a record with this id
Positions(txs, id) == {i \in 1..Len(txs) : txs[i].id = id}

\* the record new Transaction(id, ...) is to hold for the form contents f
Expected(id, f) ==
    [id |-> id, amount |-> ParseFloat(f.amount), date |-> f.date,
     category |-> f.category, subCategory |-> f.subCategory,
     description |-> StrTrim(f.description)]

\* C1: once initialize has completed, no two records of transactions carry
\* the same id, whatever add, update and delete operations have run.
C1_UniqueIds ==
    loadState = "done" =>
        \A i, j \in 1..Len(transactions) :
            transactions[i].id = transactions[j].id => i = j

\* C1 witness: after the load, an add has brought the collection to three
\* records.
C1_Witness ==
    loadState = "done" /\ op.name = "add" /\ Len(transactions) = 3

\* C2: ids are never reused over the history of the ledger, reloads
\* included: every id add assigns once initialize has completed is strictly
\* greater than every id add assigned before to a record that was persisted.
C2_IdsNeverReused ==
    [][(op'.name = "add" /\ loadState = "done") => op'.id > persisted]_vars

\* C3: nextId is strictly greater than the id of every record that is, or
\* has been since construction, in transactions.
C3_NextIdAboveEveryId ==
    /\ \A i \in 1..Len(transactions) : transactions[i].id < nextId
    /\ seen < nextId

\* C4: a confirmed delete of a present id removes the one record carrying
\* it, keeps every other record with its fields and in its relative order,
\* and leaves nextId alone.
C4_DeleteRemovesExactlyOne ==
    [][(op'.name = "delete" /\ Positions(transactions, op'.id) # {}) =>
          \E i \in Positions(transactions, op'.id) :
              /\ Len(transactions') = Len(transactions) - 1
              /\ \A j \in 1..(i - 1) : transactions'[j] = transactions[j]
              /\ \A j \in i..(Len(transactions) - 1) :
                     transactions'[j] = transactions[j + 1]
              /\ nextId' = nextId]_vars

\* C4 witness: the middle one of three records was deleted and the records
\* with ids 1 and 3 remain.
C4_Witness ==
    /\ op.name = "delete" /\ op.found /\ op.id = 2
    /\ Len(transactions) = 2
    /\ transactions[1].id = 1 /\ transactions[2].id = 3

\* C5: update of a present id puts, at the position of the record carrying
\* it, a record with that id and every other field taken from the new
\* fields; the length, every other record and nextId are unchanged.  An add
\* followed at once by an update of the id just assigned is such a step.
C5_UpdateReplacesWholesale ==
    [][(op'.name = "update" /\ Positions(transactions, op'.id) # {}) =>
          \E i \in Positions(transactions, op'.id) :
              /\ (op.name = "add" /\ op.id = op'.id => i = Len(transactions))
              /\ Len(transactions') = Len(transactions)
              /\ transactions'[i] = Expected(op'.id, op'.form)
              /\ \A j \in 1..Len(transactions) :
                     j # i => transactions'[j] = transactions[j]
              /\ nextId' = nextId]_vars

\* C5 witness: the first of two records was updated to the second form,
\* whose description is empty, and the other record is still there.
C5_Witness ==
    /\ op.name = "update" /\ op.found /\ op.id = 1
    /\ Len(transactions) = 2
    /\ transactions[1].id = 1
    /\ transactions[1].description = <<>>
    /\ transactions[1].category = "expense"

\* C6: add makes a record whose id is nextId as it was, raises nextId by
\* one, and puts the record last; the records already there keep their
\* positions and fields.
C6_AddAppendsWithNextId ==
    [][op'.name = "add" =>
          /\ Len(transactions') = Len(transactions) + 1
          /\ transactions'[Len(transactions')] = Expected(nextId, op'.form)
          /\ \A j \in 1..Len(transactions) : transactions'[j] = transactions[j]
          /\ nextId' = nextId + 1]_vars

\* C6 witness: an add put a record after an existing one.
C6_Witness ==
    /\ op.name = "add"
    /\ Len(transactions) = 2
    /\ transactions[2].id = op.id
    /\ nextId = op.id + 1

\* C7: update or delete of an id no record carries changes neither
\* transactions nor nextId.
C7_AbsentIdIsNoOp ==
    [][((op'.name = "update" \/ op'.name = "delete")
          /\ Positions(transactions, op'.id) = {}) =>
          /\ transactions' = transactions
          /\ nextId' = nextId
          /\ loadState' = loadState]_vars

\* C7 witness: an update found no record with its id in a collection that
\* holds records.
C7_Witness ==
    op.name = "update" /\ ~op.found /\ Len(transactions) = 2

\* C8: when the load resolves with a persisted collection, transactions is
\* that collection in its order and nextId is one more than its largest id,
\* or 1 when it is empty.
C8_LoadRestoresCollection ==
    [][(op'.name = "loadOk" /\ storage.present) =>
          /\ transactions' = storage.value
          /\ IF Len(storage.value) = 0
             THEN nextId' = 1
             ELSE /\ \E i \in 1..Len(storage.value) : nextId' = storage.value[i].id + 1
                  /\ \A i \in 1..Len(storage.value) : storage.value[i].id < nextId']_vars

\* C8 witness: a load restored the two records with ids 1 and 3.
C8_Witness ==
    /\ op.name = "loadOk" /\ op.found
    /\ Len(transactions) = 2
    /\ transactions[1].id = 1 /\ transactions[2].id = 3
    /\ nextId = 4

\* C9 as stated: when the load fails, transactions is empty and nextId is 1
\* as the load completes.
C9_FailedLoadLeavesEmpty ==
    op.name = "loadFail" => (transactions = <<>> /\ nextId = 1)

\* C9 amended: a failed load changes neither transactions nor nextId, which
\* are empty and 1 unless an add, update or delete ran while the load was
\* pending; the load is over and an add can follow.
C9_FailedLoadChangesNothing ==
    [][op'.name = "loadFail" =>
          /\ transactions' = transactions
          /\ nextId' = nextId
          /\ (~dirty => (transactions' = <<>> /\ nextId' = 1))
          /\ loadState' = "done"]_vars
    /\ [](op.name = "loadFail" =>
            \A formData \in FormInputs :
                Within(nextId + 1, Len(pendingSaves) + 1) =>
                    ENABLED AddTransaction(formData))

\* C9 witness: the load failed after an add made while it was pending, and
\* the added record is in transactions.
C9_Witness ==
    /\ op.name = "loadFail" /\ op.found
    /\ Len(transactions) = 1
    /\ nextId = 2

\* the collection held under DB_KEY, an absent key holding none
Persisted == IF storage.present THEN storage.value ELSE <<>>

\* C10: when the last of the saves in flight resolves, no mutation having
\* run since, the stored collection equals transactions, whatever order the
\* saves resolved in.
C10_StorageCatchesUp ==
    (op.name = "saveOk" /\ pendingSaves = <<>>) => Persisted = transactions

\* C11: a failed save changes neither transactions nor nextId, and add,
\* update of a present id and delete can be performed after it.
C11_FailedSaveChangesNothing ==
    /\ [][op'.name = "saveFail" =>
            /\ transactions' = transactions
            /\ nextId' = nextId]_vars
    /\ [](op.name = "saveFail" =>
            /\ Within(nextId + 1, Len(pendingSaves) + 1) =>
                   ENABLED (\E formData \in FormInputs : AddTransaction(formData))
            /\ Within(nextId, Len(pendingSaves) + 1) =>
                   \A i \in 1..Len(transactions) :
                       /\ ENABLED (\E formData \in FormInputs :
                                      UpdateTransaction(transactions[i].id, formData))
                       /\ ENABLED DeleteTransaction(transactions[i].id, TRUE))

\* C11 witness: a save failed while transactions holds two records, none
\* of them stored.
C11_Witness ==
    /\ op.name = "saveFail"
    /\ Len(transactions) = 2
    /\ ~storage.present
    /\ nextId = 3

\* C12: what a completed save puts under the key is the collection it was
\* issued with, only a completed save changes it, and the load that follows
\* yields that collection: as many records, in the same order, each with
\* the same id, amount, date, category, subCategory and description.
C12_RoundTrip ==
    /\ [][op'.name = "saveOk" =>
            \E i \in 1..Len(pendingSaves) :
                storage'.present /\ storage'.value = pendingSaves[i]]_vars
    /\ [][storage' # storage => op'.name = "saveOk"]_vars
    /\ [][(op'.name = "loadOk" /\ storage.present) =>
            /\ Len(transactions') = Len(storage.value)
            /\ \A i \in 1..Len(storage.value) :
                   /\ transactions'[i].id = storage.value[i].id
                   /\ transactions'[i].amount = storage.value[i].amount
                   /\ transactions'[i].date = storage.value[i].date
                   /\ transactions'[i].category = storage.value[i].category
                   /\ transactions'[i].subCategory = storage.value[i].subCategory
                   /\ transactions'[i].description = storage.value[i].description]_vars

\* C12 witness: a page opened after two records were saved has loaded
\* them, the second with an infinite amount.
C12_Witness ==
    /\ op.name = "loadOk" /\ op.found
    /\ Len(transactions) = 2
    /\ transactions[1].amount = Fin(1000)
    /\ transactions[2].amount = Inf(1)
    /\ pendingSaves = <<>>

\* C13: every record that the form submit path has put in transactions has
\* an amount that is a positive finite number, validation having failed for
\* every other amount.
C13_AmountsPositiveFinite ==
    \A i \in 1..Len(transactions) :
        /\ transactions[i].amount.kind = "fin"
        /\ ~NumLeqZero(transactions[i].amount)

\* C14: a submit that fails validation changes neither transactions nor
\* nextId and issues no save, and add or update runs only for a form in
\* which validation flags no field.
C14_InvalidFormBlocksMutation ==
    /\ [][op'.name = "invalid" =>
            /\ transactions' = transactions
            /\ nextId' = nextId
            /\ pendingSaves' = pendingSaves
            /\ \E clock \in Clocks :
                   FailingFields(op'.form, clock) # {}]_vars
    /\ [][(op'.name = "add" \/ (op'.name = "update" /\ op'.found)) =>
            \E clock \in Clocks : FailingFields(op'.form, clock) = {}]_vars

\* C14 witness: a form with the amount 0 was submitted and rejected while
\* transactions holds a record.
C14_Witness ==
    /\ op.name = "invalid"
    /\ op.form.amount = <<"0">>
    /\ Len(transactions) = 1
    /\ nextId = 2

\* a record passes the two filters
Matches(t, category, date) ==
    /\ category = "all" \/ t.category = category
    /\ date = 0 \/ t.date = date

\* C15: once the table has been rendered, it holds each record of
\* transactions that has the selected category (any category for "all") and
\* the selected date (any date for the empty filter) exactly once, and
\* nothing else; it is empty when no record passes both filters.
C15_FilterExact ==
    op.name # "construct" =>
        /\ \A i \in 1..Len(transactions) :
               Cardinality({j \in 1..Len(table) : table[j] = transactions[i]})
                   = IF Matches(transactions[i], categoryFilter, dateFilter) THEN 1 ELSE 0
        /\ \A j \in 1..Len(table) :
               \E i \in 1..Len(transactions) : table[j] = transactions[i]

\* C15 witness: of three records, the only expense of day 1 is shown.
C15_Witness ==
    /\ op.name = "render"
    /\ categoryFilter = "expense" /\ dateFilter = 1
    /\ Len(transactions) = 3
    /\ Len(table) = 1
    /\ table[1].category = "expense" /\ table[1].date = 1

\* x <= y on numbers: false when either is NaN
NumLeq(x, y) ==
    /\ x.kind # "nan"
    /\ y.kind # "nan"
    /\ (x = y \/ NumSign(NumSub(x, y)) < 0)

\* C16: in each sort mode the rows of the table are in the order of the
\* mode's key: amounts non-decreasing for amount-asc and non-increasing for
\* amount-desc, dates non-decreasing for date-asc and non-increasing for
\* date-desc.
C16_SortedByKey ==
    op.name # "construct" =>
        \A j, k \in 1..Len(table) :
            j < k =>
                CASE sortOption = "amount-asc" -> NumLeq(table[j].amount, table[k].amount)
                  [] sortOption = "amount-desc" -> NumLeq(table[k].amount, table[j].amount)
                  [] sortOption = "date-asc" -> table[j].date <= table[k].date
                  [] sortOption = "date-desc" -> table[k].date <= table[j].date
                  [] OTHER -> TRUE

\* C17: with the category filter "all", an empty date filter and a sort
\* option the comparator does not know, the table holds the records of
\* transactions in their order.
C17_IdentityProjection ==
    (op.name # "construct" /\ categoryFilter = "all" /\ dateFilter = 0
        /\ sortOption = "none") => table = transactions

\* C17 witness: the filters and the sort option were set and put back, and
\* the table shows the three records again.
C17_Witness ==
    /\ op.name = "render"
    /\ categoryFilter = "all" /\ dateFilter = 0 /\ sortOption = "none"
    /\ Len(table) = 3
    /\ table[1].id = 1 /\ table[3].id = 3

\* C18: rendering under any filter and sort option changes neither
\* transactions nor nextId, and the rendering and summarizing that end the
\* load leave transactions as the load made it.
C18_ViewsDoNotMutate ==
    /\ [][op'.name = "render" =>
            /\ transactions' = transactions
            /\ nextId' = nextId]_vars
    /\ [][op'.name = "loadOk" =>
            /\ transactions' = IF storage.present THEN storage.value ELSE transactions
            /\ storage.present \/ nextId' = nextId]_vars

\* C18 witness: the table shows three records by descending amount, in an
\* order that is not the order of transactions.
C18_Witness ==
    /\ op.name = "render"
    /\ sortOption = "amount-desc"
    /\ Len(table) = 3
    /\ table # transactions
    /\ table[1].id = 3

\* the exact sum of the amounts of the records of txs, all finite, as the
\* multiples of 2^53 and the rest
RECURSIVE SumHi(_)
SumHi(txs) == IF txs = <<>> THEN 0 ELSE Head(txs).amount.hi + SumHi(Tail(txs))

RECURSIVE SumVal(_)
SumVal(txs) == IF txs = <<>> THEN 0 ELSE Head(txs).amount.val + SumVal(Tail(txs))

\* the sum of the amounts of the records of txs as a number: the double
\* nearest to the exact sum when all are finite
AmountSum(txs) ==
    IF \E i \in 1..Len(txs) : txs[i].amount.kind = "nan" THEN NaN
    ELSE IF \E i \in 1..Len(txs) : txs[i].amount.kind = "inf" THEN Inf(1)
    ELSE Double(SumHi(txs), SumVal(txs))

\* the records of txs with this category
OfCategory(txs, category) == SelectSeq(txs, LAMBDA t : t.category = category)

\* C19: the summary shows, whatever the filters, totalIncome equal to the
\* sum of the amounts of the income records of transactions, totalExpenses
\* equal to the sum of the amounts of its expense records, and netBalance
\* equal to totalIncome minus totalExpenses; all three are 0 for the empty
\* collection.
C19_SummaryTotals ==
    summary.written =>
        /\ summary.totalIncome = AmountSum(OfCategory(transactions, "income"))
        /\ summary.totalExpenses = AmountSum(OfCategory(transactions, "expense"))
        /\ summary.netBalance = NumSub(summary.totalIncome, summary.totalExpenses)
        /\ transactions = <<>> =>
               /\ summary.totalIncome = Fin(0)
               /\ summary.totalExpenses = Fin(0)
               /\ summary.netBalance = Fin(0)

\* C20: however transactions is split into a sequence A followed by a
\* sequence B, each total of the summary of transactions is the sum of that
\* total of the summary of A and of the summary of B.
C20_SummaryAdditive ==
    summary.written =>
        \A n \in 0..Len(transactions) :
            LET A == Summarize(SubSeq(transactions, 1, n))
                B == Summarize(SubSeq(transactions, n + 1, Len(transactions)))
            IN  /\ summary.totalIncome = NumAdd(A.totalIncome, B.totalIncome)
                /\ summary.totalExpenses = NumAdd(A.totalExpenses, B.totalExpenses)
                /\ summary.netBalance = NumAdd(A.netBalance, B.netBalance)

\* C21: loadInitialData ends by refreshing the views, whether getItem gave a
\* collection, gave nothing or failed: a pending load is eventually over, and
\* the step that ends it leaves transactions and nextId at their loaded
\* values, the table showing the projection of those transactions and the
\* summary holding their totals.
C21_LoadEndsWithRefresh ==
    /\ [][(op'.name = "loadOk" \/ op'.name = "loadFail") =>
            /\ loadState = "pending" /\ loadState' = "done"
            /\ IF op'.name = "loadOk" /\ storage.present
               THEN /\ transactions' = RehydrateAll(storage.value)
                    /\ nextId' = NextIdAfterLoad(transactions')
               ELSE /\ transactions' = transactions
                    /\ nextId' = nextId
            /\ table' \in Projections(transactions', categoryFilter', dateFilter',
                                      sortOption')
            /\ summary' = Summarize(transactions')]_vars
    /\ (loadState = "pending") ~>
           (/\ loadState = "done"
            /\ op.name \in {"loadOk", "loadFail"}
            /\ summary = Summarize(transactions)
            /\ table \in Projections(transactions, categoryFilter, dateFilter,
                                     sortOption))

\* C21 witness: the load gave three records after the category filter was
\* set to income; the table shows the two income records and the summary
\* is written.
C21_Witness ==
    /\ op.name = "loadOk" /\ op.found
    /\ categoryFilter = "income"
    /\ Len(transactions) = 3
    /\ Len(table) = 2
    /\ summary.written
    /\ summary.totalIncome = Fin(2)

\* C22: no operation waits for a save: while saves are in flight an add, an
\* update of each present id and a delete can be performed, and what each
\* does to transactions and nextId depends on transactions, nextId and its
\* arguments only; the saves in flight stay in flight.
C22_SavesBlockNothing ==
    /\ [](pendingSaves # <<>> =>
            /\ Within(nextId + 1, Len(pendingSaves) + 1) =>
                   ENABLED (\E formData \in FormInputs : AddTransaction(formData))
            /\ Within(nextId, Len(pendingSaves) + 1) =>
                   \A i \in 1..Len(transactions) :
                       /\ ENABLED (\E formData \in FormInputs :
                                      UpdateTransaction(transactions[i].id, formData))
                       /\ ENABLED DeleteTransaction(transactions[i].id, TRUE))
    /\ [][(pendingSaves # <<>> /\ op'.name = "add") =>
            /\ transactions' = Pushed(transactions, Expected(nextId, op'.form))
            /\ nextId' = nextId + 1
            /\ SubSeq(pendingSaves', 1, Len(pendingSaves)) = pendingSaves]_vars
    /\ [][(pendingSaves # <<>> /\ op'.name = "update" /\ op'.found) =>
            /\ transactions' = Replaced(transactions, FindIndex(transactions, op'.id),
                                        Expected(op'.id, op'.form))
            /\ nextId' = nextId
            /\ SubSeq(pendingSaves', 1, Len(pendingSaves)) = pendingSaves]_vars
    /\ [][(pendingSaves # <<>> /\ op'.name = "delete") =>
            /\ transactions' = Filtered(transactions, op'.id)
            /\ nextId' = nextId
            /\ SubSeq(pendingSaves', 1, Len(pendingSaves)) = pendingSaves]_vars

\* C22 witness: a delete removed the first of two records while the save
\* of the second add was in flight.
C22_Witness ==
    /\ op.name = "delete" /\ op.found
    /\ Len(pendingSaves) = 2
    /\ Len(pendingSaves[1]) = 2
    /\ Len(transactions) = 1
    /\ transactions[1].id = 2
    /\ storage.present

\* C23: validateForm flags exactly the fields among amount, date, category
\* and subCategory that violate their constraint (an amount that is not a
\* positive finite number, a date missing or after today, a missing category,
\* a missing subCategory), and the form passes if and only if there is none;
\* for the amount -5 with the other fields valid it flags the amount alone.
C23_FlagsExactlyViolations ==
    (op.name \in {"invalid", "add"} \/ (op.name = "update" /\ op.found)) =>
        \A clock \in Clocks :
            LET amount == ToNumber(op.form.amount)
                violating ==
                    {f \in {"amount", "date", "category", "subCategory"} :
                        \/ f = "amount" /\ ~(amount.kind = "fin" /\ ~NumLeqZero(amount))
                        \/ f = "date" /\ (op.form.date = 0
                                          \/ op.form.date > (clock.now + clock.off) \div 24)
                        \/ f = "category" /\ op.form.category = ""
                        \/ f = "subCategory" /\ op.form.subCategory = ""}
            IN  /\ FailingFields(op.form, clock) = violating
                /\ (op.name = "invalid") <=> (violating # {})
                /\ (op.form.amount = <<"-", "5">> /\ violating = {"amount"}) =>
                       FailingFields(op.form, clock) = {"amount"}

\* C24: a record added while the load is pending is not lost: the step that
\* ends the load, with a stored collection, with nothing or with a failure,
\* leaves in transactions every record that was added before it, no two
\* records with the same id, and nextId no lower than it was.
C24_AddBeforeLoadSurvives ==
    [][(op'.name \in {"loadOk", "loadFail"}) =>
          /\ \A i \in 1..Len(transactions) :
                 \E j \in 1..Len(transactions') : transactions'[j] = transactions[i]
          /\ \A i, j \in 1..Len(transactions') :
                 transactions'[i].id = transactions'[j].id => i = j
          /\ nextId' >= nextId]_vars

\* C25: an add, an update of a present id and a confirmed delete each issue
\* one save, after the change to transactions, and the save is given the
\* whole of transactions as the change left it; an update of an absent id
\* issues none.
C25_OneSavePerMutation ==
    /\ [][(\/ op'.name = "add"
           \/ op'.name = "update" /\ op'.found
           \/ op'.name = "delete") =>
            pendingSaves' = Append(pendingSaves, transactions')]_vars
    /\ [][(op'.name = "update" /\ ~op'.found) => pendingSaves' = pendingSaves]_vars

\* C25 witness: an update issued the second save in flight, which holds the
\* updated record; the first holds the record as it was added.
C25_Witness ==
    /\ op.name = "update" /\ op.found
    /\ Len(pendingSaves) = 2
    /\ pendingSaves[2] = transactions
    /\ pendingSaves[1] # transactions
    /\ Len(pendingSaves[1]) = Len(transactions)

\* C26: a delete whose confirmation is declined changes neither transactions
\* nor nextId, issues no save and refreshes neither the table nor the
\* summary; a record leaves transactions through the delete handler only on
\* a confirmed delete of its id.
C26_DeclinedDeleteChangesNothing ==
    /\ [][op'.name = "deleteDeclined" =>
            /\ transactions' = transactions
            /\ nextId' = nextId
            /\ pendingSaves' = pendingSaves
            /\ table' = table
            /\ summary' = summary]_vars
    /\ [][(op'.name \in {"delete", "deleteDeclined"}) =>
            \A i \in 1..Len(transactions) :
                (\A j \in 1..Len(transactions') : transactions'[j] # transactions[i]) =>
                    (op'.name = "delete" /\ op'.id = transactions[i].id)]_vars

\* C26 witness: the delete of a record shown in the table was declined, the
\* save of the record in flight.
C26_Witness ==
    /\ op.name = "deleteDeclined"
    /\ loadState = "done"
    /\ Len(transactions) = 1
    /\ table = transactions
    /\ pendingSaves = <<transactions>>

\* C27: the date check rejects a date exactly when it is missing or later
\* than the local calendar date of the moment of validation, at every time
\* of day and every offset from UTC: today's date passes, tomorrow's fails.
C27_DateCheckFollowsCalendar ==
    (op.name \in {"invalid", "add", "update"} /\ op.form.amount = <<"7">>) =>
        \A clock \in LocalClocks :
            (op.name = "invalid") <=>
                (op.form.date = 0 \/ op.form.date > (clock.now + clock.off) \div 24)
=============================================================================
